---- MODULE Spec2Model ----
(***************************************************************************)
(* The asynchronous out-of-band approval workflow of guardrAIls:           *)
(* Auth0CIBAService (backend/src/services/async-auth/AsyncAuthService.ts), *)
(* the transfer branch of GuardrAIlsAgent.processMessage and the treasury  *)
(* executor simulateTransfer.                                              *)
(*                                                                         *)
(* The runtime is Node.js: code between two awaits runs atomically, so     *)
(* every action below is one such run-to-completion segment.  The clock    *)
(* `now` is Date.now() in milliseconds.  A setTimeout timer fires at its   *)
(* due time: the clock does not pass a due timer.  A call to the authority *)
(* (axios.post) is answered after an arbitrary delay with any signal.      *)
(***************************************************************************)
EXTENDS Integers, Sequences, FiniteSets, TLC

(* ------------------------------ bounds -------------------------------- *)
\* number of calls made into the system (chat messages with a transfer,
\* waitForApproval calls, pollCIBAResult calls)
MaxProcs == 2
\* the clock takes free steps of ClockStep while now < MaxIdleSteps * ClockStep;
\* jumps to deadlines and due timers are always possible
MaxIdleSteps == 1
\* the authority answers slow_down only while the interval is below this
MaxIntervalS == 15

(* ------------------------- program constants -------------------------- *)
DefaultExpiresIn == 300
DefaultInterval == 5
SlowDownIncrement == 5
SimulatedTtlMs == 300000
DefaultMaxWaitMs == 120000
ApprovalThreshold == 50000
InitialBalance == 5250000

(* --------------------------- input domains ---------------------------- *)
ClockStep == DefaultInterval * 1000
Users == {"u1", "u2"}
NoUser == "anonymous"
\* amounts typed into the chat: none, the threshold itself, above it
Amounts == {0, ApprovalThreshold, ApprovalThreshold + 25000}
\* expires_in and interval (seconds) of the authority's bc-authorize responses;
\* 0 is "absent".  One response leaves the lifetime to the default and asks for
\* a slow cadence, the other sets a short lifetime and leaves the cadence to
\* the default
AuthorityOffers == {<<0, 12 * DefaultInterval>>, <<2 * DefaultInterval, 0>>}
\* maxWaitMs arguments of direct waitForApproval calls
MaxWaitChoices == {0, 2 * ClockStep + 2000}
\* what the authority's token endpoint can answer to one poll
Signals == {"token", "no_token", "authorization_pending", "slow_down",
            "access_denied", "expired_token", "other_error"}

Terminal == {"approved", "denied", "expired"}

(* ------------------------------- state -------------------------------- *)
VARIABLES
  now,        \* Date.now()
  store,      \* Auth0CIBAService.pendingRequests: authReqId -> CIBARequest
  procs,      \* the calls in progress or finished, one record per call
  nextAuthId, \* the authority's next auth_req_id
  balance,    \* bankAccounts[ACC001].balance
  txCount,    \* transactionHistory.length
  locale,     \* the host's default locale, used by Number.prototype.toLocaleString()
  binding,    \* the last direct createBindingMessage call: arguments and result
  reply       \* the last response of the approve and deny routes

vars == <<now, store, procs, nextAuthId, balance, txCount, locale, binding, reply>>

ProcIds == 1..MaxProcs
NoId == <<"NONE", 0>>
\* an id the authority never issues and no fallback synthesizes
UnknownId == <<"AUTH", 0>>

IsSimulated(id) == id[1] = "SIMULATED"

IdleProc ==
  [kind |-> "none", pc |-> "idle", req |-> NoId, user |-> NoUser, amount |-> 0,
   startTime |-> 0, maxWaitMs |-> 0, pollIntervalMs |-> 0, wakeAt |-> 0,
   lastPoll |-> "none", afterExpired |-> FALSE, sawPeer |-> "none",
   owed |-> FALSE, asyncAuth |-> FALSE, result |-> "none", executed |-> 0]

NoBinding == [operation |-> <<>>, details |-> <<>>, message |-> <<>>]
NoReply == [route |-> "none", caller |-> NoUser, id |-> NoId, code |-> 0]

Init ==
  /\ now = 0
  /\ store = <<>>
  /\ procs = [p \in ProcIds |-> IdleProc]
  /\ nextAuthId = 1
  /\ balance = InitialBalance
  /\ txCount = 0
  /\ locale = "en-US"
  /\ binding = NoBinding
  /\ reply = NoReply

(* -------------------------- binding message --------------------------- *)
\* a text is a sequence of characters, a character a one-character string;
\* U+2019 (right single quotation mark), U+202F (narrow no-break space) and
\* U+221E (infinity sign) are written by their code points

LetterChars ==
  {"A", "B", "C", "D", "E", "F", "G", "H", "I", "J", "K", "L", "M", "N", "O", "P", "Q",
   "R", "S", "T", "U", "V", "W", "X", "Y", "Z", "a", "b", "c", "d", "e", "f", "g", "h",
   "i", "j", "k", "l", "m", "n", "o", "p", "q", "r", "s", "t", "u", "v", "w", "x", "y",
   "z"}
DigitChars == <<"0", "1", "2", "3", "4", "5", "6", "7", "8", "9">>
\* \w of the regular expression
WordChars == LetterChars \cup {DigitChars[i] : i \in DOMAIN DigitChars} \cup {"_"}
\* \s of the regular expression, as far as the texts here go
SpaceChars == {" ", "U+202F"}
\* the class [\w\s+\-_.,:#] that sanitize keeps
KeptChars == WordChars \cup SpaceChars \cup {"+", "-", "_", ".", ",", ":", "#"}

IsKept(c) == c \in KeptChars

\* sanitize = text.replace(/[^\w\s+\-_.,:#]/g, '')
sanitize(text) == SelectSeq(text, IsKept)

\* Number.POSITIVE_INFINITY, which parseFloat returns for a digit string beyond
\* the double range; it stands above every amount of the model
Infinity == 2147483647

\* the decimal digits of a natural number
RECURSIVE DigitsOf(_)
DigitsOf(n) ==
  IF n < 10 THEN <<DigitChars[n + 1]>>
  ELSE Append(DigitsOf(n \div 10), DigitChars[(n % 10) + 1])

\* digits in groups of three from the right
RECURSIVE Grouped(_, _)
Grouped(digits, sep) ==
  IF Len(digits) <= 3 THEN digits
  ELSE Grouped(SubSeq(digits, 1, Len(digits) - 3), sep) \o <<sep>>
         \o SubSeq(digits, Len(digits) - 2, Len(digits))

\* the grouping separator of the locale's decimal pattern
GroupSeparator(loc) ==
  IF loc = "en-US" THEN ","
  ELSE IF loc = "de-DE" THEN "."
  ELSE IF loc = "de-CH" THEN "U+2019"
  ELSE "U+202F"

\* amount.toLocaleString() in the host's default locale
toLocaleString(n, loc) ==
  IF n = Infinity THEN <<"U+221E">>
  ELSE IF n < 0 THEN <<"-">> \o Grouped(DigitsOf(0 - n), GroupSeparator(loc))
  ELSE Grouped(DigitsOf(n), GroupSeparator(loc))

ApproveTransferOf ==
  <<"A", "p", "p", "r", "o", "v", "e", " ", "t", "r", "a", "n", "s", "f", "e", "r", " ",
    "o", "f", " ">>
UsdTo == <<" ", "U", "S", "D", " ", "t", "o", " ">>
Unknown == <<"u", "n", "k", "n", "o", "w", "n">>
Approve == <<"A", "p", "p", "r", "o", "v", "e", " ">>

\* createBindingMessage(operation, details); an absent amount is a details
\* record without the field, an absent toAccount is the empty text (both are
\* falsy for ||)
createBindingMessage(operation, details) ==
  IF details.type = "transfer"
    THEN ApproveTransferOf
           \o (IF "amount" \in DOMAIN details
                 THEN toLocaleString(details.amount, locale) ELSE <<"0">>)
           \o UsdTo
           \o sanitize(IF details.toAccount = <<>> THEN Unknown ELSE details.toAccount)
    ELSE Approve \o sanitize(operation) \o <<":", " ">> \o sanitize(details.description)

\* the recipient the agent reads from the chat message
ToAccount == <<"A", "C", "C", "9", "9", "9">>

\* the details the agent passes to initiateCIBARequest
TransferDetails(amount) ==
  [type |-> "transfer", description |-> <<>>, amount |-> amount, toAccount |-> ToAccount]

(* ------------------------- Auth0CIBAService --------------------------- *)

\* details.amount || 0: an absent amount counts as 0
AmountOrZero(details) ==
  IF "amount" \in DOMAIN details THEN details.amount ELSE 0

\* requiresApproval with the threshold itself counted as high-risk
requiresApprovalInclusive(operationType, details) ==
  IF operationType = "transfer" THEN AmountOrZero(details) >= ApprovalThreshold
  ELSE IF operationType = "sensitive_operation" THEN TRUE
  ELSE FALSE

\* requiresApproval(operationType, details)
requiresApproval(operationType, details) ==
  IF operationType = "transfer" THEN AmountOrZero(details) > ApprovalThreshold
  ELSE IF operationType = "sensitive_operation" THEN TRUE
  ELSE FALSE

\* pendingRequests.set(id, rec)
MapSet(st, id, rec) ==
  [x \in (DOMAIN st) \cup {id} |-> IF x = id THEN rec ELSE st[x]]

\* the request object built by initiateCIBARequest on a bc-authorize response
RealRequest(user, amount, expiresIn, interval) ==
  [userId |-> user, status |-> "pending", requestedAt |-> now, respondedAt |-> FALSE,
   expiresAt |-> now + (IF expiresIn = 0 THEN DefaultExpiresIn ELSE expiresIn) * 1000,
   interval |-> IF interval = 0 THEN DefaultInterval ELSE interval,
   amount |-> amount,
   bindingMessage |-> createBindingMessage(<<>>, TransferDetails(amount))]

\* SimulatedRequest with the lifetime added in seconds to a clock in milliseconds
SimulatedRequestShortTtl(user, amount) ==
  [userId |-> user, status |-> "pending", requestedAt |-> now, respondedAt |-> FALSE,
   expiresAt |-> now + DefaultExpiresIn, interval |-> 0, amount |-> amount,
   bindingMessage |-> createBindingMessage(<<>>, TransferDetails(amount))]

\* the request object built by initiateCIBARequest in its catch block
SimulatedRequest(user, amount) ==
  [userId |-> user, status |-> "pending", requestedAt |-> now, respondedAt |-> FALSE,
   expiresAt |-> now + SimulatedTtlMs, interval |-> 0, amount |-> amount,
   bindingMessage |-> createBindingMessage(<<>>, TransferDetails(amount))]

\* history: some pollCIBAResult call on the stored request id has returned
\* 'expired' (to a direct caller or to a waitForApproval that then returned it)
ExpiredReturned(id) ==
  \E q \in ProcIds : /\ procs[q].pc = "done" /\ procs[q].req = id
                      /\ procs[q].result = "expired" /\ procs[q].lastPoll # "unknown_id"

\* PollSync with the deadline checked only for simulated requests, after the
\* branch on the id
PollSyncExpiryLast(st, id) ==
  IF id \notin DOMAIN st THEN [st |-> st, res |-> "expired", path |-> "unknown_id"]
  ELSE IF ~IsSimulated(id) THEN [st |-> st, res |-> "pending", path |-> "authority"]
  ELSE IF now > st[id].expiresAt
    THEN [st |-> [st EXCEPT ![id].status = "expired"], res |-> "expired",
          path |-> "local_expiry"]
  ELSE [st |-> st, res |-> st[id].status, path |-> "simulated"]

\* PollSync that reports an id the store does not hold as still pending
PollSyncUnknownPending(st, id) ==
  IF id \notin DOMAIN st THEN [st |-> st, res |-> "pending", path |-> "unknown_id"]
  ELSE IF now > st[id].expiresAt
    THEN [st |-> [st EXCEPT ![id].status = "expired"], res |-> "expired",
          path |-> "local_expiry"]
  ELSE IF IsSimulated(id)
    THEN [st |-> st, res |-> st[id].status, path |-> "simulated"]
  ELSE [st |-> st, res |-> "pending", path |-> "authority"]

\* PollSync that approves a simulated request by itself once it is one default
\* interval old
PollSyncAutoApprove(st, id) ==
  IF id \notin DOMAIN st THEN [st |-> st, res |-> "expired", path |-> "unknown_id"]
  ELSE IF now > st[id].expiresAt
    THEN [st |-> [st EXCEPT ![id].status = "expired"], res |-> "expired",
          path |-> "local_expiry"]
  ELSE IF IsSimulated(id)
    THEN IF st[id].status = "pending" /\ now >= st[id].requestedAt + DefaultInterval * 1000
           THEN [st |-> [st EXCEPT ![id].status = "approved", ![id].respondedAt = TRUE],
                 res |-> "approved", path |-> "simulated"]
           ELSE [st |-> st, res |-> st[id].status, path |-> "simulated"]
  ELSE [st |-> st, res |-> "pending", path |-> "authority"]

\* pollCIBAResult up to its first await: unknown id, local expiry, simulated
\* request; otherwise the token request is sent to the authority.  path names
\* the branch taken
PollSync(st, id) ==
  IF id \notin DOMAIN st THEN [st |-> st, res |-> "expired", path |-> "unknown_id"]
  ELSE IF now > st[id].expiresAt
    THEN [st |-> [st EXCEPT ![id].status = "expired"], res |-> "expired",
          path |-> "local_expiry"]
  ELSE IF IsSimulated(id)
    THEN [st |-> st, res |-> st[id].status, path |-> "simulated"]
  ELSE [st |-> st, res |-> "pending", path |-> "authority"]

\* PollReply that takes every error it does not recognize for an expiry
PollReplyErrorsExpire(st, id, sig) ==
  IF sig = "token"
    THEN [st |-> [st EXCEPT ![id].status = "approved", ![id].respondedAt = TRUE],
          res |-> "approved"]
  ELSE IF sig = "slow_down"
    THEN [st |-> [st EXCEPT ![id].interval =
                    (IF st[id].interval = 0 THEN DefaultInterval ELSE st[id].interval)
                    + SlowDownIncrement],
          res |-> "pending"]
  ELSE IF sig = "access_denied"
    THEN [st |-> [st EXCEPT ![id].status = "denied", ![id].respondedAt = TRUE],
          res |-> "denied"]
  ELSE IF sig \in {"expired_token", "other_error"}
    THEN [st |-> [st EXCEPT ![id].status = "expired"], res |-> "expired"]
  ELSE [st |-> st, res |-> "pending"]

\* PollReply that stores the grown interval in milliseconds
PollReplySlowDownInMs(st, id, sig) ==
  IF sig = "token"
    THEN [st |-> [st EXCEPT ![id].status = "approved", ![id].respondedAt = TRUE],
          res |-> "approved"]
  ELSE IF sig = "slow_down"
    THEN [st |-> [st EXCEPT ![id].interval =
                    (IF st[id].interval = 0 THEN DefaultInterval ELSE st[id].interval)
                    + SlowDownIncrement * 1000],
          res |-> "pending"]
  ELSE IF sig = "access_denied"
    THEN [st |-> [st EXCEPT ![id].status = "denied", ![id].respondedAt = TRUE],
          res |-> "denied"]
  ELSE IF sig = "expired_token"
    THEN [st |-> [st EXCEPT ![id].status = "expired"], res |-> "expired"]
  ELSE [st |-> st, res |-> "pending"]

\* pollCIBAResult after the await: the authority's answer is applied to the
\* request object read before the await
PollReply(st, id, sig) ==
  IF sig = "token"
    THEN [st |-> [st EXCEPT ![id].status = "approved", ![id].respondedAt = TRUE],
          res |-> "approved"]
  ELSE IF sig = "slow_down"
    THEN [st |-> [st EXCEPT ![id].interval =
                    (IF st[id].interval = 0 THEN DefaultInterval ELSE st[id].interval)
                    + SlowDownIncrement],
          res |-> "pending"]
  ELSE IF sig = "access_denied"
    THEN [st |-> [st EXCEPT ![id].status = "denied", ![id].respondedAt = TRUE],
          res |-> "denied"]
  ELSE IF sig = "expired_token"
    THEN [st |-> [st EXCEPT ![id].status = "expired"], res |-> "expired"]
  ELSE [st |-> st, res |-> "pending"]

\* Finish with the executor run whatever the wait returned
FinishExecAlways(pr, st, res) ==
  [pr |-> [pr EXCEPT !.pc = "done", !.result = res, !.startTime = 0, !.maxWaitMs = 0,
                     !.pollIntervalMs = 0, !.wakeAt = 0, !.afterExpired = FALSE,
                     !.sawPeer = "none", !.owed = FALSE],
   st |-> st,
   exec |-> pr.kind = "agent" /\ res \in {"approved", "denied", "expired", "timeout"}]

\* the end of a call: waitForApproval returns res; the agent then runs the
\* executor exactly when res is approved (exec = TRUE)
Finish(pr, st, res) ==
  [pr |-> [pr EXCEPT !.pc = "done", !.result = res, !.startTime = 0, !.maxWaitMs = 0,
                     !.pollIntervalMs = 0, !.wakeAt = 0, !.afterExpired = FALSE,
                     !.sawPeer = "none", !.owed = FALSE],
   st |-> st,
   exec |-> pr.kind = "agent" /\ res = "approved"]

\* AfterPoll that keeps the cadence read when the wait began
AfterPollKeepsInterval(pr, st, res) ==
  IF res \in Terminal THEN Finish(pr, st, res)
  ELSE [pr |-> [pr EXCEPT !.pc = "sleep", !.wakeAt = now + pr.pollIntervalMs],
        st |-> st, exec |-> FALSE]

\* AfterPoll that always sleeps for the default interval
AfterPollDefaultCadence(pr, st, res) ==
  IF res \in Terminal THEN Finish(pr, st, res)
  ELSE [pr |-> [pr EXCEPT !.pc = "sleep", !.pollIntervalMs = DefaultInterval * 1000,
                          !.wakeAt = now + DefaultInterval * 1000],
        st |-> st, exec |-> FALSE]

\* waitForApproval after a poll returned res: return a terminal result, or
\* adopt a grown interval and sleep
AfterPoll(pr, st, res) ==
  IF res \in Terminal THEN Finish(pr, st, res)
  ELSE LET upd == st[pr.req]
           ms == IF upd.interval # 0 /\ upd.interval * 1000 > pr.pollIntervalMs
                   THEN upd.interval * 1000 ELSE pr.pollIntervalMs
       IN [pr |-> [pr EXCEPT !.pc = "sleep", !.pollIntervalMs = ms, !.wakeAt = now + ms],
           st |-> st, exec |-> FALSE]

\* WaitLoop with the budget compared by <= : one more poll when the elapsed
\* time equals maxWaitMs
WaitLoopInclusive(pr, st) ==
  IF now - pr.startTime <= pr.maxWaitMs
    THEN LET r == PollSync(st, pr.req)
             polled == [pr EXCEPT !.lastPoll = r.path,
                                  !.afterExpired = ExpiredReturned(pr.req)]
         IN IF r.path = "authority"
              THEN [pr |-> [polled EXCEPT !.pc = "inflight"], st |-> st, exec |-> FALSE]
              ELSE AfterPoll(polled, r.st, r.res)
    ELSE Finish(pr, st, "timeout")

\* WaitLoop without the budget: it polls again after every sleep
WaitLoopNoBudget(pr, st) ==
  LET r == PollSync(st, pr.req)
      polled == [pr EXCEPT !.lastPoll = r.path, !.afterExpired = ExpiredReturned(pr.req)]
  IN IF r.path = "authority"
       THEN [pr |-> [polled EXCEPT !.pc = "inflight"], st |-> st, exec |-> FALSE]
       ELSE AfterPoll(polled, r.st, r.res)

\* the head of the while loop of waitForApproval, through the poll it starts
WaitLoop(pr, st) ==
  IF now - pr.startTime < pr.maxWaitMs
    THEN LET r == PollSync(st, pr.req)
             polled == [pr EXCEPT !.lastPoll = r.path,
                                  !.afterExpired = ExpiredReturned(pr.req)]
         IN IF r.path = "authority"
              THEN [pr |-> [polled EXCEPT !.pc = "inflight"], st |-> st, exec |-> FALSE]
              ELSE AfterPoll(polled, r.st, r.res)
    ELSE Finish(pr, st, "timeout")

\* waitForApproval(authReqId, maxWaitMs) from its first line
WaitBegin(pr, st, id, maxWait) ==
  WaitLoop([pr EXCEPT !.req = id, !.startTime = now, !.maxWaitMs = maxWait,
                      !.pollIntervalMs =
                        (IF id \in DOMAIN st /\ st[id].interval # 0
                           THEN st[id].interval ELSE DefaultInterval) * 1000],
           st)

(* ------------------------------ treasury ------------------------------ *)

\* simulateTransfer('ACC001', toAccount, amount, ...): does it succeed
TransferSucceeds(bal, amount) == ~(bal < amount) /\ ~(amount <= 0)

\* the treasury after r.exec calls of simulateTransfer (0 or 1) of amount
Treasury(exec, amount) ==
  IF exec /\ TransferSucceeds(balance, amount)
    THEN /\ balance' = balance - amount
         /\ txCount' = txCount + 1
    ELSE UNCHANGED <<balance, txCount>>

\* a waitForApproval call in progress
Waiting(pr) == pr.kind \in {"wait", "agent"} /\ pr.pc \in {"sleep", "inflight"}

\* the step of proc p that ends in outcome r = [pr, st, exec]; history: a
\* concurrent waiter on the same request notes the first outcome a peer returns
Commit(p, r) ==
  /\ procs' = [q \in ProcIds |->
                 IF q = p THEN [r.pr EXCEPT !.executed = @ + (IF r.exec THEN 1 ELSE 0)]
                 ELSE IF /\ Waiting(procs[q]) /\ procs[q].req = r.pr.req
                         /\ procs[q].sawPeer = "none"
                         /\ r.pr.kind \in {"wait", "agent"} /\ r.pr.pc = "done"
                         /\ r.pr.result \in Terminal
                   THEN [procs[q] EXCEPT !.sawPeer = r.pr.result]
                 ELSE procs[q]]
  /\ store' = r.st
  /\ Treasury(r.exec, r.pr.amount)

\* user names are introduced in order (the users are interchangeable)
UsersInUse == {store[id].userId : id \in DOMAIN store}
                \cup {procs[p].user : p \in ProcIds}
NextUsers == IF "u1" \in UsersInUse THEN Users ELSE {"u1"}

\* the instants at which calls are made: the first clock steps and the
\* deadlines of the stored requests
CallInstant ==
  \/ now <= MaxIdleSteps * (DefaultInterval * 1000)
  \/ \E id \in DOMAIN store : now \in {store[id].expiresAt, store[id].expiresAt + 1}

\* call slots are taken in order
Free(p) ==
  /\ procs[p].kind = "none"
  /\ IF p = 1 THEN TRUE ELSE procs[p - 1].kind # "none"
  /\ CallInstant

(* ------------------------------ actions ------------------------------- *)

\* AgentTransfer that asks for approval whether or not async authorization is
\* enabled
AgentTransferIgnoresFlag(p, user, asyncAuthEnabled, amount) ==
  /\ Free(p)
  /\ LET pr == [procs[p] EXCEPT !.kind = "agent", !.amount = amount,
                                !.asyncAuth = asyncAuthEnabled]
     IN IF amount = 0
          THEN Commit(p, [Finish(pr, store, "need_amount") EXCEPT !.exec = FALSE])
        ELSE IF requiresApproval("transfer", [amount |-> amount])
          THEN IF user = NoUser
                 THEN Commit(p, Finish(pr, store, "not_authenticated"))
                 ELSE Commit(p, [pr |-> [pr EXCEPT !.pc = "initiating", !.user = user],
                                 st |-> store, exec |-> FALSE])
        ELSE Commit(p, [Finish(pr, store, "immediate") EXCEPT !.exec = TRUE])
  /\ UNCHANGED <<now, nextAuthId, locale, binding, reply>>

\* GuardrAIlsAgent.processMessage, transfer branch, up to the bc-authorize call
AgentTransfer(p, user, asyncAuthEnabled, amount) ==
  /\ Free(p)
  /\ LET pr == [procs[p] EXCEPT !.kind = "agent", !.amount = amount,
                                !.asyncAuth = asyncAuthEnabled]
     IN IF amount = 0
          THEN Commit(p, [Finish(pr, store, "need_amount") EXCEPT !.exec = FALSE])
        ELSE IF asyncAuthEnabled /\ requiresApproval("transfer", [amount |-> amount])
          THEN IF user = NoUser
                 THEN Commit(p, Finish(pr, store, "not_authenticated"))
                 ELSE Commit(p, [pr |-> [pr EXCEPT !.pc = "initiating", !.user = user],
                                 st |-> store, exec |-> FALSE])
        ELSE Commit(p, [Finish(pr, store, "immediate") EXCEPT !.exec = TRUE])
  /\ UNCHANGED <<now, nextAuthId, locale, binding, reply>>

\* initiateCIBARequest: the authority answers bc-authorize; the agent goes on
\* to waitForApproval with the default budget
InitiateSucceeds(p, expiresIn, interval) ==
  /\ procs[p].pc = "initiating"
  /\ LET id == <<"AUTH", nextAuthId>>
         st == MapSet(store, id, RealRequest(procs[p].user, procs[p].amount,
                                             expiresIn, interval))
     IN Commit(p, WaitBegin(procs[p], st, id, DefaultMaxWaitMs))
  /\ nextAuthId' = nextAuthId + 1
  /\ UNCHANGED <<now, locale, binding, reply>>

\* initiateCIBARequest: bc-authorize fails, a simulated request is stored and
\* the agent answers without waiting
InitiateFails(p) ==
  /\ procs[p].pc = "initiating"
  /\ LET id == <<"SIMULATED", now>>
         st == MapSet(store, id, SimulatedRequest(procs[p].user, procs[p].amount))
     IN Commit(p, [Finish([procs[p] EXCEPT !.req = id], st, "simulated")
                     EXCEPT !.exec = FALSE])
  /\ UNCHANGED <<now, nextAuthId, locale, binding, reply>>

KnownOrUnknown == (DOMAIN store) \cup {UnknownId}

\* a direct waitForApproval(authReqId, maxWaitMs) call
WaitForApproval(p, id, maxWait) ==
  /\ Free(p)
  /\ Commit(p, WaitBegin([procs[p] EXCEPT !.kind = "wait"], store, id, maxWait))
  /\ UNCHANGED <<now, nextAuthId, locale, binding, reply>>

\* a direct pollCIBAResult(authReqId) call
PollCIBAResult(p, id) ==
  /\ Free(p)
  /\ LET r == PollSync(store, id)
         pr == [procs[p] EXCEPT !.kind = "poll", !.req = id, !.lastPoll = r.path,
                                !.afterExpired = ExpiredReturned(id)]
     IN IF r.path = "authority" THEN Commit(p, [pr |-> [pr EXCEPT !.pc = "inflight"],
                                  st |-> store, exec |-> FALSE])
        ELSE Commit(p, Finish(pr, r.st, r.res))
  /\ UNCHANGED <<now, nextAuthId, locale, binding, reply>>

\* the authority answers a poll in flight
AuthorityReply(p, sig) ==
  /\ procs[p].pc = "inflight"
  /\ sig = "slow_down" => store[procs[p].req].interval < MaxIntervalS
  /\ LET r == PollReply(store, procs[p].req, sig)
     IN IF procs[p].kind = "poll" THEN Commit(p, Finish(procs[p], r.st, r.res))
        ELSE Commit(p, AfterPoll(procs[p], r.st, r.res))
  /\ UNCHANGED <<now, nextAuthId, locale, binding, reply>>

\* the setTimeout of waitForApproval fires and the loop goes round
TimerFires(p) ==
  /\ procs[p].pc = "sleep"
  /\ now >= procs[p].wakeAt
  /\ Commit(p, WaitLoop(procs[p], store))
  /\ UNCHANGED <<now, nextAuthId, locale, binding, reply>>

\* Override that forgets to stamp respondedAt
OverrideNoStamp(st, id, verdict) ==
  IF id \notin DOMAIN st \/ st[id].status # "pending"
    THEN [st |-> st, ok |-> FALSE]
    ELSE [st |-> [st EXCEPT ![id].status = verdict], ok |-> TRUE]

\* Override that checks only that the request exists
OverrideUnguarded(st, id, verdict) ==
  IF id \notin DOMAIN st
    THEN [st |-> st, ok |-> FALSE]
    ELSE [st |-> [st EXCEPT ![id].status = verdict, ![id].respondedAt = TRUE],
          ok |-> TRUE]

\* approveRequest / denyRequest: [st, ok]
Override(st, id, verdict) ==
  IF id \notin DOMAIN st \/ st[id].status # "pending"
    THEN [st |-> st, ok |-> FALSE]
    ELSE [st |-> [st EXCEPT ![id].status = verdict, ![id].respondedAt = TRUE],
          ok |-> TRUE]

\* history: a waiter asleep between two polls of a simulated request is owed
\* the approval recorded now when the request's deadline has not passed and the
\* waiter's budget is not used up
Owed(pr, id) ==
  /\ Waiting(pr) /\ pr.req = id /\ IsSimulated(id)
  /\ Override(store, id, "approved").ok
  /\ now < store[id].expiresAt
  /\ now - pr.startTime < pr.maxWaitMs

ApproveRequest(id) ==
  /\ store' = Override(store, id, "approved").st
  /\ procs' = [q \in ProcIds |->
                 IF Owed(procs[q], id) THEN [procs[q] EXCEPT !.owed = TRUE]
                 ELSE procs[q]]
  /\ UNCHANGED <<now, nextAuthId, balance, txCount, locale, binding, reply>>

DenyRequest(id) ==
  /\ store' = Override(store, id, "denied").st
  /\ UNCHANGED <<now, procs, nextAuthId, balance, txCount, locale, binding, reply>>

\* getRequest(authReqId): the stored record, or null
getRequest(st, id) == IF id \in DOMAIN st THEN st[id] ELSE [status |-> "null"]

\* PendingForUser whose lazy expiry does not look at the owner
PendingForUserAnyOwner(st, user) ==
  LET mine == {id \in DOMAIN st : st[id].userId = user /\ st[id].status = "pending"}
      late == {id \in DOMAIN st : st[id].status = "pending" /\ now > st[id].expiresAt}
  IN [st |-> [id \in DOMAIN st |->
                IF id \in late THEN [st[id] EXCEPT !.status = "expired"] ELSE st[id]],
      ids |-> mine \ late]

\* getPendingRequestsForUser(userId): the store after the lazy expiry, and the
\* ids of the records returned
PendingForUser(st, user) ==
  LET mine == {id \in DOMAIN st : st[id].userId = user /\ st[id].status = "pending"}
      late == {id \in mine : now > st[id].expiresAt}
  IN [st |-> [id \in DOMAIN st |->
                IF id \in late THEN [st[id] EXCEPT !.status = "expired"] ELSE st[id]],
      ids |-> mine \ late]

GetPendingRequestsForUser(user) ==
  /\ store' = PendingForUser(store, user).st
  /\ UNCHANGED <<now, procs, nextAuthId, balance, txCount, locale, binding, reply>>

\* the times at which something changes: deadlines, the instant after them,
\* due timers
Deadlines ==
  {store[id].expiresAt : id \in DOMAIN store}
    \cup {store[id].expiresAt + 1 : id \in DOMAIN store}

Instants ==
  Deadlines \cup {procs[p].wakeAt : p \in {q \in ProcIds : procs[q].pc = "sleep"}}

\* a call to the authority is awaiting its answer
InFlight == \E p \in ProcIds : procs[p].pc \in {"initiating", "inflight"}

\* time passes, never beyond a due timer.  An answer of the authority arrives
\* within the instant of the call or is late enough to cross a deadline: while
\* a call is in flight the clock moves only to deadlines
Tick ==
  /\ \E t \in IF InFlight THEN Deadlines
             ELSE Instants \cup (IF now < MaxIdleSteps * ClockStep
                                   THEN {now + ClockStep} ELSE {}) :
       /\ t > now
       /\ \A p \in ProcIds : procs[p].pc = "sleep" => t <= procs[p].wakeAt
       /\ now' = t
  /\ UNCHANGED <<store, procs, nextAuthId, balance, txCount, locale, binding, reply>>

Next ==
  \/ \E p \in ProcIds, u \in NextUsers \cup {NoUser}, e \in BOOLEAN, a \in Amounts :
       AgentTransfer(p, u, e, a)
  \/ \E p \in ProcIds, o \in AuthorityOffers : InitiateSucceeds(p, o[1], o[2])
  \/ \E p \in ProcIds : InitiateFails(p)
  \/ \E p \in ProcIds, id \in KnownOrUnknown, m \in MaxWaitChoices :
       WaitForApproval(p, id, m)
  \/ \E p \in ProcIds, id \in KnownOrUnknown : PollCIBAResult(p, id)
  \/ \E p \in ProcIds, s \in Signals : AuthorityReply(p, s)
  \/ \E p \in ProcIds : TimerFires(p)
  \/ \E id \in KnownOrUnknown : ApproveRequest(id)
  \/ \E id \in KnownOrUnknown : DenyRequest(id)
  \/ \E u \in Users : GetPendingRequestsForUser(u)
  \/ Tick

Spec == Init /\ [][Next]_vars

(* ------------------------ congestion scenario ------------------------- *)
\* one chat message with a transfer above the threshold, a bc-authorize
\* response that leaves lifetime and cadence to the defaults, and an authority
\* that answers every poll with any signal: the wait polls every
\* DefaultInterval seconds, slower after each slow_down, until its budget of
\* DefaultMaxWaitMs is used up
\* the first call slot
CongestionCaller == CHOOSE p \in ProcIds : \A q \in ProcIds : p <= q

CongestionNext ==
  \/ AgentTransfer(CongestionCaller, "u1", TRUE, ApprovalThreshold + 25000)
  \/ InitiateSucceeds(CongestionCaller, 0, 0)
  \/ \E s \in Signals : AuthorityReply(CongestionCaller, s)
  \/ TimerFires(CongestionCaller)
  \/ Tick

CongestionSpec == Init /\ [][CongestionNext]_vars

(* -------------------------- approvals routes -------------------------- *)

\* Route that does not compare the caller with the request's user
RouteNoOwnerCheck(st, caller, id, verdict) ==
  IF getRequest(st, id).status = "null" THEN [st |-> st, code |-> 404]
  ELSE LET r == Override(st, id, verdict)
       IN IF r.ok THEN [st |-> r.st, code |-> 200] ELSE [st |-> st, code |-> 400]

\* POST /:authReqId/approve and POST /:authReqId/deny called by the
\* authenticated user caller: the store afterwards and the response status
Route(st, caller, id, verdict) ==
  IF getRequest(st, id).status = "null" THEN [st |-> st, code |-> 404]
  ELSE IF st[id].userId # caller THEN [st |-> st, code |-> 403]
  ELSE LET r == Override(st, id, verdict)
       IN IF r.ok THEN [st |-> r.st, code |-> 200] ELSE [st |-> st, code |-> 400]

\* POST /:authReqId/approve
ApproveRoute(caller, id) ==
  LET r == Route(store, caller, id, "approved")
  IN /\ store' = r.st
     /\ procs' = [q \in ProcIds |->
                    IF r.code = 200 /\ Owed(procs[q], id)
                      THEN [procs[q] EXCEPT !.owed = TRUE] ELSE procs[q]]
     /\ reply' = [route |-> "approve", caller |-> caller, id |-> id, code |-> r.code]
     /\ UNCHANGED <<now, nextAuthId, balance, txCount, locale, binding>>

\* POST /:authReqId/deny
DenyRoute(caller, id) ==
  LET r == Route(store, caller, id, "denied")
  IN /\ store' = r.st
     /\ reply' = [route |-> "deny", caller |-> caller, id |-> id, code |-> r.code]
     /\ UNCHANGED <<now, procs, nextAuthId, balance, txCount, locale, binding>>

\* what the authority answers in this scenario
RouteSignals == {"token", "authorization_pending", "access_denied"}

\* the lifetime in seconds the authority grants in this scenario
ShortLifetimeS == CHOOSE e \in {o[1] : o \in AuthorityOffers} : e # 0

\* the approval workflow driven through the agent and the two routes only:
\* transfers above the threshold by two users, an authority that may serve the
\* first call (granting a short lifetime and answering its polls) and fails
\* for the other, and any authenticated user posting to the routes
RoutesNext ==
  \/ \E p \in ProcIds, u \in NextUsers :
       AgentTransfer(p, u, TRUE, ApprovalThreshold + 25000)
  \/ InitiateSucceeds(CongestionCaller, ShortLifetimeS, 0)
  \/ \E p \in ProcIds : InitiateFails(p)
  \/ \E s \in RouteSignals : AuthorityReply(CongestionCaller, s)
  \/ TimerFires(CongestionCaller)
  \/ \E u \in Users, id \in KnownOrUnknown : ApproveRoute(u, id)
  \/ \E u \in Users, id \in KnownOrUnknown : DenyRoute(u, id)
  \/ Tick

RoutesSpec == Init /\ [][RoutesNext]_vars

(* ------------------------ prompt polls scenario ------------------------ *)
\* every call to the authority is answered within the instant it is made, so
\* the clock moves only while no call is in flight; timers fire when due, the
\* authority answers every call and time goes on

PromptTick == ~InFlight /\ Tick

PromptNext ==
  \/ \E p \in ProcIds, u \in NextUsers :
       AgentTransfer(p, u, TRUE, ApprovalThreshold + 25000)
  \/ \E p \in ProcIds, o \in AuthorityOffers : InitiateSucceeds(p, o[1], o[2])
  \/ \E p \in ProcIds : InitiateFails(p)
  \/ \E p \in ProcIds, id \in KnownOrUnknown, m \in MaxWaitChoices :
       WaitForApproval(p, id, m)
  \/ \E p \in ProcIds, s \in Signals : AuthorityReply(p, s)
  \/ \E p \in ProcIds : TimerFires(p)
  \/ \E id \in KnownOrUnknown : ApproveRequest(id)
  \/ \E id \in KnownOrUnknown : DenyRequest(id)
  \/ PromptTick

PromptSpec ==
  /\ Init
  /\ [][PromptNext]_vars
  /\ WF_vars(PromptTick)
  /\ \A p \in ProcIds : WF_vars(TimerFires(p))
  /\ \A p \in ProcIds : WF_vars(\E s \in Signals : AuthorityReply(p, s))
  /\ \A p \in ProcIds :
       WF_vars(InitiateFails(p)
                 \/ \E o \in AuthorityOffers : InitiateSucceeds(p, o[1], o[2]))

(* ---------------------- binding message scenario ----------------------- *)
\* initiateCIBARequest builds the binding message from its operation and
\* details arguments before anything else (line 66); the scenario calls it
\* with arguments of every shape on hosts of several default locales

Locales == {"en-US", "de-DE", "de-CH", "fr-FR"}

OperationTexts ==
  {<<"P", "a", "y", "r", "o", "l", "l">>,
   <<"T", "r", "a", "n", "s", "f", "e", "r", " ", "$", "5">>}

DescriptionTexts ==
  {<<"Q", "3", " ", "r", "u", "n">>,
   <<"<", "b", ">", "r", "u", "n", "<", "/", "b", ">", ";", " ", "#", "4", "2">>}

AccountTexts == {<<>>, ToAccount, <<"A", "C", "C", "'", "9", "\"", ">">>}

DetailTypes == {"transfer", "payroll_access", "sensitive_operation"}

BindingAmounts == {0, 999, 1000, ApprovalThreshold, 1234567, 0 - 5000, Infinity}

DetailsChoices ==
  [type : DetailTypes, description : DescriptionTexts, toAccount : AccountTexts]
    \cup [type : DetailTypes, description : DescriptionTexts, toAccount : AccountTexts,
          amount : BindingAmounts]

BindingInit ==
  /\ now = 0
  /\ store = <<>>
  /\ procs = [p \in ProcIds |-> IdleProc]
  /\ nextAuthId = 1
  /\ balance = InitialBalance
  /\ txCount = 0
  /\ locale \in Locales
  /\ binding = NoBinding
  /\ reply = NoReply

CreateBindingMessage(operation, details) ==
  /\ binding' = [operation |-> operation, details |-> details,
                 message |-> createBindingMessage(operation, details)]
  /\ UNCHANGED <<now, store, procs, nextAuthId, balance, txCount, locale, reply>>

BindingNext ==
  \E operation \in OperationTexts, details \in DetailsChoices :
    CreateBindingMessage(operation, details)

BindingSpec == BindingInit /\ [][BindingNext]_vars

(* ============================== claims ================================ *)

Requests == DOMAIN store
Verdicts == {"approved", "denied"}
WaitResults == {"approved", "denied", "timeout", "expired"}

\* proc p returns res in this step
Returns(p, res) ==
  procs[p].pc # "done" /\ procs'[p].pc = "done" /\ procs'[p].result = res

\* proc p takes a step (a peer's outcome noted in sawPeer and an approval noted
\* in owed are not steps of p)
Steps(p) ==
  [procs'[p] EXCEPT !.sawPeer = "none", !.owed = FALSE]
    # [procs[p] EXCEPT !.sawPeer = "none", !.owed = FALSE]

\* proc p calls pollCIBAResult in this step (from a direct call, the start of a
\* wait or a fired timer): it ends up awaiting the authority, asleep after a
\* pending poll, or returning the poll's terminal result
Polls(p) ==
  /\ procs[p].pc \in {"idle", "sleep", "initiating"}
  /\ Steps(p)
  /\ procs'[p].kind \in {"wait", "poll", "agent"}
  /\ \/ procs'[p].pc \in {"inflight", "sleep"}
     \/ procs'[p].pc = "done" /\ procs'[p].result \in Terminal

\* C1: under any interleaving of polls, overrides and listings a stored
\* request's status only moves from pending to approved, denied or expired, and
\* a status that is approved, denied or expired is never changed again.
C1_StatusNeverLeavesTerminal ==
  [][\A id \in Requests :
       store[id].status \in Terminal =>
         id \in DOMAIN store' /\ store'[id].status = store[id].status]_vars

\* C2 (as stated): respondedAt is set if and only if the status is not pending.
C2_RespondedIffNotPending ==
  \A id \in Requests : store[id].respondedAt <=> store[id].status # "pending"

\* C2 (amended): respondedAt is unset while the status is pending and set
\* whenever the status is approved or denied; the expiry paths set the status
\* to expired and leave respondedAt as it was.
C2_RespondedIffAnswered ==
  /\ [](\A id \in Requests :
         /\ store[id].status = "pending" => ~store[id].respondedAt
         /\ store[id].status \in Verdicts => store[id].respondedAt)
  /\ [][\A id \in Requests :
          (id \in DOMAIN store' /\ store'[id].status = "expired"
             /\ store[id].status # "expired" /\ store'[id].requestedAt = store[id].requestedAt)
          => store'[id].respondedAt = store[id].respondedAt]_vars

C2_Witness ==
  \E a, b \in Requests :
    /\ store[a].status = "expired" /\ ~store[a].respondedAt /\ now > store[a].expiresAt
    /\ store[b].status \in Verdicts /\ store[b].respondedAt

\* C3: a pollCIBAResult call on a known request that starts after the
\* request's expiresAt returns 'expired', records status expired and sends
\* nothing to the authority.
C3_LocalExpiryFirst ==
  [][\A p \in ProcIds :
       (Polls(p) /\ procs'[p].req \in DOMAIN store'
          /\ now > store'[procs'[p].req].expiresAt)
       => /\ procs'[p].pc = "done" /\ procs'[p].result = "expired"
          /\ procs'[p].lastPoll = "local_expiry"
          /\ store'[procs'[p].req].status = "expired"]_vars

\* an authority-issued request that had been approved is polled after its
\* deadline: the poll returned expired by the local check
C3_Witness ==
  \E p \in ProcIds :
    /\ procs[p].pc = "done" /\ procs[p].result = "expired"
    /\ procs[p].lastPoll = "local_expiry"
    /\ ~IsSimulated(procs[p].req)
    /\ store[procs[p].req].respondedAt
    /\ store[procs[p].req].status = "expired"

\* C4: once the clock is past a request's expiresAt every reader observes it
\* as expired: getRequest returns it with status expired, and approveRequest
\* and denyRequest no longer record a verdict.
C4_ExpiredForEveryReader ==
  \A id \in Requests :
    now > store[id].expiresAt =>
      /\ getRequest(store, id).status = "expired"
      /\ \A v \in Verdicts : ~Override(store, id, v).ok

\* C5: once a pollCIBAResult call has returned 'expired' for a request, no
\* pollCIBAResult call made later for the same request returns 'approved'.
C5_NoApprovedAfterExpired ==
  [][\A p \in ProcIds :
       Returns(p, "approved") =>
         /\ ~(procs[p].pc = "inflight" /\ procs[p].afterExpired)
         /\ ~(Polls(p) /\ ExpiredReturned(procs'[p].req))]_vars

\* C6: approveRequest/denyRequest return true exactly when the request exists
\* and is pending, then set the verdict and respondedAt; otherwise they return
\* false and change nothing.  Of two calls made one after the other on the same
\* request at most one returns true, and the status stays the winner's verdict.
C6_OverrideOnlyOnPending ==
  \A id \in KnownOrUnknown, v \in Verdicts :
    LET r == Override(store, id, v)
        pending == id \in Requests /\ store[id].status = "pending"
    IN /\ r.ok <=> pending
       /\ r.ok => r.st = [store EXCEPT ![id].status = v, ![id].respondedAt = TRUE]
       /\ ~r.ok => r.st = store
       /\ \A w \in Verdicts :
            LET r2 == Override(r.st, id, w)
            IN /\ ~(r.ok /\ r2.ok)
               /\ r.ok => r2.st[id].status = v

\* a simulated request leaves pending for approved only through approveRequest
C6_Witness ==
  \E id \in Requests :
    IsSimulated(id) /\ store[id].status = "approved" /\ store[id].respondedAt

\* the chat messages whose transfer needed approval
NeedsApproval(p) == procs[p].kind = "agent" /\ procs[p].result # "immediate"

\* the executor runs, and the amounts they were asked to move, of calls 1..n
RECURSIVE ExecutedUpTo(_)
ExecutedUpTo(n) == IF n = 0 THEN 0 ELSE procs[n].executed + ExecutedUpTo(n - 1)

RECURSIVE MovedUpTo(_)
MovedUpTo(n) ==
  IF n = 0 THEN 0 ELSE procs[n].executed * procs[n].amount + MovedUpTo(n - 1)

\* C7: for a transfer that needs approval the executor runs at most once and
\* only when the wait returned approved; after denied, expired or timeout it
\* does not run; the treasury holds exactly the executed transfers.
C7_ExecuteOnlyWhenApproved ==
  /\ \A p \in ProcIds :
       NeedsApproval(p) =>
         /\ procs[p].executed <= 1
         /\ procs[p].executed = 1 => procs[p].pc = "done" /\ procs[p].result = "approved"
         /\ procs[p].result \in {"denied", "expired", "timeout"} => procs[p].executed = 0
  /\ txCount = ExecutedUpTo(MaxProcs)
  /\ balance = InitialBalance - MovedUpTo(MaxProcs)

C7_Witness ==
  /\ \E p \in ProcIds :
       NeedsApproval(p) /\ procs[p].result = "approved" /\ procs[p].executed = 1
  /\ \E p \in ProcIds :
       NeedsApproval(p) /\ procs[p].result \in {"denied", "expired", "timeout"}
  /\ txCount = 1

\* C8: when a transfer needs approval and its request is approved before it
\* expires and within the caller's wait budget, the caller invokes the
\* executor, for simulated and authority-issued requests alike.  A caller that
\* has returned never invokes it later.
C8_ApprovedInTimeIsExecuted ==
  \A p \in ProcIds :
    (/\ procs[p].kind = "agent" /\ procs[p].pc = "done"
     /\ procs[p].req \in Requests
     /\ store[procs[p].req].status = "approved"
     /\ ~(now > store[procs[p].req].expiresAt)
     /\ now - store[procs[p].req].requestedAt < DefaultMaxWaitMs)
    => procs[p].executed = 1

\* C9: when waitForApproval calls run concurrently on one request, a waiter
\* that returns a terminal outcome after a concurrent waiter returned one
\* returns the same outcome.
C9_WaitersAgree ==
  [][\A p \in ProcIds :
       (Waiting(procs[p]) /\ procs[p].sawPeer # "none"
          /\ procs'[p].pc = "done" /\ procs'[p].result \in Terminal)
       => procs'[p].result = procs[p].sawPeer]_vars

\* C10: waitForApproval returns approved, denied, timeout or expired, never
\* pending; a waiter that finds its budget used up when its timer fires returns
\* timeout without polling, and timeout is returned in no other case.
C10_WaitEndsInOneOfFour ==
  [][\A p \in ProcIds :
       /\ (procs'[p].kind \in {"wait", "agent"} /\ procs'[p].req # NoId
             /\ procs[p].pc # "done" /\ procs'[p].pc = "done"
             /\ procs'[p].result # "simulated")
          => procs'[p].result \in WaitResults
       /\ (procs[p].pc = "sleep" /\ Steps(p))
          => (now - procs[p].startTime >= procs[p].maxWaitMs
                <=> Returns(p, "timeout"))
       /\ (procs[p].pc = "inflight" /\ Steps(p))
          => ~Returns(p, "timeout")]_vars

\* a wait ran out of budget on a request that is still pending and unexpired
C10_Witness ==
  \E p \in ProcIds :
    /\ procs[p].kind \in {"wait", "agent"} /\ procs[p].pc = "done"
    /\ procs[p].result = "timeout" /\ procs[p].lastPoll # "none"
    /\ procs[p].req \in Requests
    /\ store[procs[p].req].status = "pending"
    /\ ~(now > store[procs[p].req].expiresAt)

\* C11: for a request that is never approved or denied, a waitForApproval call
\* that ends at the head of its loop returns 'expired' when the request's
\* expiresAt passes before the call's maxWaitMs has elapsed, and 'timeout' when
\* maxWaitMs elapses before expiresAt passes.
C11_ExpiredOrTimeoutByOrder ==
  [][\A p \in ProcIds :
       (/\ procs[p].pc = "sleep" /\ Steps(p) /\ procs'[p].pc = "done"
        /\ procs[p].req \in Requests
        /\ ~store[procs[p].req].respondedAt
        /\ procs'[p].result \in {"expired", "timeout"})
       => LET passesAt == store[procs[p].req].expiresAt + 1
              budgetEnd == procs[p].startTime + procs[p].maxWaitMs
          IN /\ passesAt < budgetEnd => procs'[p].result = "expired"
             /\ budgetEnd < passesAt => procs'[p].result = "timeout"]_vars

\* C12: initiateCIBARequest always ends with a stored pending request of the
\* caller; when the authority call fails the request's id carries the SIMULATED
\* prefix and its expiresAt is 300 seconds after creation; an id is treated as
\* simulated exactly when the request came from the fallback.
C12_InitiateFallsBack ==
  /\ [](\A id \in Requests : IsSimulated(id) <=> store[id].interval = 0)
  /\ [][\A p \in ProcIds :
          (procs[p].pc = "initiating" /\ Steps(p))
          => LET id == procs'[p].req
             IN /\ id \in DOMAIN store'
                /\ store'[id].status = "pending" /\ ~store'[id].respondedAt
                /\ store'[id].userId = procs[p].user
                /\ store'[id].requestedAt = now
                /\ procs'[p].result = "simulated" <=> IsSimulated(id)
                /\ IsSimulated(id) =>
                     /\ id \notin {UnknownId} \cup {<<"AUTH", n>> : n \in 1..nextAuthId}
                     /\ store'[id].expiresAt = now + DefaultExpiresIn * 1000]_vars

C12_Witness ==
  \E p \in ProcIds :
    /\ procs[p].result = "simulated" /\ IsSimulated(procs[p].req)
    /\ store[procs[p].req].status = "pending"
    /\ store[procs[p].req].expiresAt = store[procs[p].req].requestedAt + SimulatedTtlMs
    /\ \E id \in Requests : ~IsSimulated(id)

\* ids the store has never held: authority ids not yet issued, simulated ids
\* of instants at which no fallback ran
UnseenIds ==
  ({<<"AUTH", n>> : n \in 0..(nextAuthId + 1)}
     \cup {<<"SIMULATED", t>> : t \in {0, now, now + 1}}) \ DOMAIN store

\* C13: for an id the store has never seen pollCIBAResult returns 'expired'
\* without asking the authority and approveRequest/denyRequest return false;
\* none of them creates or changes a record.
C13_UnknownIdIsExpiredOrFalse ==
  /\ \A id \in UnseenIds :
       /\ PollSync(store, id) = [st |-> store, res |-> "expired", path |-> "unknown_id"]
       /\ \A v \in Verdicts : Override(store, id, v) = [st |-> store, ok |-> FALSE]
  /\ \A p \in ProcIds :
       procs[p].lastPoll = "unknown_id"
       => /\ procs[p].pc = "done" /\ procs[p].result = "expired"
          /\ procs[p].req \notin DOMAIN store

C13_Witness ==
  /\ \E p \in ProcIds :
       /\ procs[p].kind = "poll" /\ procs[p].lastPoll = "unknown_id"
       /\ procs[p].result = "expired"
  /\ \E id \in Requests : store[id].status = "pending"

\* C14: a poll of an authority-issued request answered with an error that is
\* none of the recognized signals returns 'pending' and leaves the record as it
\* was; a waitForApproval in progress goes to sleep for another round.
C14_UnrecognizedErrorIsPending ==
  \A p \in ProcIds :
    procs[p].pc = "inflight"
    => LET r == PollReply(store, procs[p].req, "other_error")
           w == AfterPoll(procs[p], r.st, r.res)
       IN /\ r.res = "pending" /\ r.st = store
          /\ Waiting(procs[p])
             => /\ w.pr.pc = "sleep" /\ w.pr.wakeAt > now
                /\ w.st = store /\ ~w.exec

\* a waiter's poll is in flight on a request that has been denied meanwhile
C14_Witness ==
  \E p \in ProcIds :
    /\ procs[p].pc = "inflight" /\ Waiting(procs[p])
    /\ store[procs[p].req].status = "denied"
    /\ store[procs[p].req].interval > DefaultInterval

\* C15: a poll answered slow_down adds exactly 5 seconds to the request's
\* interval, leaves its status and returns 'pending'; no other answer and no
\* other operation changes the interval of a stored request.
C15_OnlySlowDownChangesInterval ==
  /\ [](\A p \in ProcIds :
         procs[p].pc = "inflight"
         => LET id == procs[p].req
            IN /\ \A s \in Signals :
                    PollReply(store, id, s).st[id].interval =
                      store[id].interval + (IF s = "slow_down" THEN 5 ELSE 0)
               /\ PollReply(store, id, "slow_down").res = "pending"
               /\ PollReply(store, id, "slow_down").st[id].status = store[id].status)
  /\ [][\A id \in Requests :
          (id \in DOMAIN store' /\ store'[id].interval # store[id].interval)
          => /\ store'[id].interval = store[id].interval + SlowDownIncrement
             /\ store'[id].status = store[id].status
             /\ \E p \in ProcIds :
                  /\ procs[p].pc = "inflight" /\ procs[p].req = id /\ Steps(p)
                  /\ \/ procs'[p].pc = "sleep"
                     \/ procs'[p].pc = "done" /\ procs'[p].result = "pending"]_vars

C15_Witness ==
  \E id \in Requests, p \in ProcIds :
    /\ store[id].interval = DefaultInterval + SlowDownIncrement
    /\ store[id].status = "pending"
    /\ procs[p].kind = "poll" /\ procs[p].req = id /\ procs[p].result = "pending"

\* C16: when the authority answers a wait's polls with slow_down the request's
\* interval grows with each such answer and the wait sleeps for the grown
\* interval; when it then answers with an access token the wait returns
\* 'approved' at that poll, whatever pending answers came in between.
C16_CongestionThenApproved ==
  [][\A p \in ProcIds :
       (procs[p].pc = "inflight" /\ Waiting(procs[p]) /\ Steps(p))
       => LET id == procs[p].req
          IN /\ store'[id].interval >= store[id].interval
             /\ store'[id].interval > store[id].interval
                => /\ procs'[p].pc = "sleep"
                   /\ procs'[p].pollIntervalMs = store'[id].interval * 1000
                   /\ procs'[p].pollIntervalMs > procs[p].pollIntervalMs
                   /\ procs'[p].wakeAt = now + procs'[p].pollIntervalMs
             /\ (store[id].status = "pending" /\ store'[id].status = "approved")
                => /\ Returns(p, "approved")
                   /\ procs'[p].executed = procs[p].executed + 1]_vars

\* slow_down at 0 s and 10 s, a pending answer at 25 s, the token at 40 s
C16_Witness ==
  /\ procs[CongestionCaller].pc = "done"
  /\ procs[CongestionCaller].result = "approved"
  /\ procs[CongestionCaller].executed = 1
  /\ store[procs[CongestionCaller].req].interval = DefaultInterval + 2 * SlowDownIncrement
  /\ now = ((DefaultInterval + SlowDownIncrement)
              + 2 * (DefaultInterval + 2 * SlowDownIncrement)) * 1000
  /\ balance = InitialBalance - procs[CongestionCaller].amount

C18_ApprovalObservedByWaiter ==
  [][\A p \in ProcIds :
       (/\ procs[p].pc = "sleep" /\ procs[p].owed /\ Steps(p)
        /\ IsSimulated(procs[p].req))
       => /\ Returns(p, "approved")
          /\ now <= procs[p].wakeAt]_vars

\* the inputs of requiresApproval: operation kinds, and details with and
\* without an amount
OperationTypes == {"transfer", "sensitive_operation", "view_payroll", "calendar"}
PolicyAmounts ==
  {-1, 0, 1, ApprovalThreshold - 1, ApprovalThreshold, ApprovalThreshold + 1,
   ApprovalThreshold + 25000, InitialBalance}
NoDetails == [k \in {} |-> 0]
PolicyDetails == {[amount |-> a] : a \in PolicyAmounts} \cup {NoDetails}

C20_ThresholdAmountNeedsApproval ==
  \A p \in ProcIds :
    (procs[p].kind = "agent" /\ procs[p].asyncAuth
       /\ procs[p].amount = ApprovalThreshold)
    => /\ procs[p].result # "immediate"
       /\ procs[p].executed = 1 => procs[p].result = "approved"

\* C23: every binding message consists only of letters, digits, whitespace and
\* the characters + - _ . , : #; the message of a transfer of 50000 to ACC999
\* reads 'Approve transfer of 50,000 USD to ACC999', the amount in digits with
\* thousands separators and no currency symbol.
C23_BindingMessageIsSafeText ==
  binding # NoBinding =>
    /\ \A i \in DOMAIN binding.message : binding.message[i] \in KeptChars
    /\ ( /\ binding.details.type = "transfer"
         /\ "amount" \in DOMAIN binding.details
         /\ binding.details.amount = ApprovalThreshold
         /\ binding.details.toAccount = ToAccount )
       => binding.message
            = <<"A", "p", "p", "r", "o", "v", "e", " ", "t", "r", "a", "n", "s", "f", "e",
                "r", " ", "o", "f", " ", "5", "0", ",", "0", "0", "0", " ", "U", "S", "D",
                " ", "t", "o", " ", "A", "C", "C", "9", "9", "9">>

\* C21: every initiateCIBARequest call stores its request under an id that no
\* other request of the store has, whether the authority issued the id or the
\* fallback synthesized it: a step that ends an initiation never writes under
\* an id already in the store.
C21_InitiationIdIsFresh ==
  [][\A p \in ProcIds :
       (procs[p].pc = "initiating" /\ procs'[p].pc # "initiating")
         => procs'[p].req \notin DOMAIN store]_vars

\* C24: what the store returns under a requestId for bindingMessage, userId,
\* details and expiresAt is what was stored at creation: no step (poll, approve,
\* deny, list, wait or another initiation) changes it or drops the id.
C24_CreationFieldsAreFixed ==
  [][\A id \in DOMAIN store :
       /\ id \in DOMAIN store'
       /\ store'[id].bindingMessage = store[id].bindingMessage
       /\ store'[id].userId = store[id].userId
       /\ store'[id].amount = store[id].amount
       /\ store'[id].expiresAt = store[id].expiresAt]_vars

\* C26: whenever a wait returns 'timeout', the stored status of its request is
\* pending at that moment.
C26_TimeoutMeansStillPending ==
  [][\A p \in ProcIds :
       (Returns(p, "timeout") /\ procs[p].req \in DOMAIN store)
         => store'[procs[p].req].status = "pending"]_vars

\* C25: in simulated mode the agent that asked for a transfer needing approval
\* waits for its request, the request is approved without an approve call
\* about 5 seconds after its creation (by the poll after that at the latest),
\* and the agent answers only with the approval, having executed the transfer.
C25_SimulatedRequestAutoApproves ==
  \A p \in ProcIds :
    (procs[p].kind = "agent" /\ procs[p].req \in Requests /\ IsSimulated(procs[p].req))
      => /\ procs[p].pc = "done"
              => (procs[p].result = "approved" /\ procs[p].executed = 1)
         /\ now - store[procs[p].req].requestedAt >= 2 * DefaultInterval * 1000
              => store[procs[p].req].status = "approved"

\* C22: getPendingRequestsForUser(u) returns exactly the requests of u that are
\* pending and not past their deadline; it sets to expired exactly the requests
\* of u that are pending and past their deadline, which it does not return;
\* every other request of the store is neither returned nor changed.
C22_PendingListIsExact ==
  \A u \in Users :
    LET r == PendingForUser(store, u)
    IN /\ DOMAIN r.st = DOMAIN store
       /\ \A id \in DOMAIN store :
            LET mine == store[id].userId = u /\ store[id].status = "pending"
                late == now > store[id].expiresAt
            IN /\ id \in r.ids <=> (mine /\ ~late)
               /\ (mine /\ late) => r.st[id] = [store[id] EXCEPT !.status = "expired"]
               /\ ~(mine /\ late) => r.st[id] = store[id]

\* u1 has a pending request past its deadline, u2 a pending request that is
\* not: the list for u1 expires the one and neither returns nor changes the
\* other, which the list for u2 returns
C22_Witness ==
  LET r1 == PendingForUser(store, "u1")
      r2 == PendingForUser(store, "u2")
  IN /\ \E id \in DOMAIN store :
          /\ store[id].userId = "u1" /\ store[id].status = "pending"
          /\ r1.st[id].status = "expired" /\ id \notin r1.ids
     /\ \E id \in r2.ids : id \notin r1.ids /\ r1.st[id] = store[id]

\* the agent calls that asked for approval and got past initiateCIBARequest
Initiators ==
  {p \in ProcIds :
     /\ procs[p].kind = "agent" /\ procs[p].asyncAuth /\ procs[p].user # NoUser
     /\ requiresApproval("transfer", [amount |-> procs[p].amount])
     /\ procs[p].pc # "initiating"}

Larger(a, b) == IF a > b THEN a ELSE b

\* the interval of request id in milliseconds as a wait reads it when it
\* begins: the recorded interval, 5 s when there is none
StartingSleep(st, id) ==
  (IF id \in DOMAIN st /\ st[id].interval # 0 THEN st[id].interval ELSE DefaultInterval)
    * 1000

\* C30: within one waitForApproval call the sleep between polls never shrinks.
\* It starts at the request's recorded interval (5 s when none is recorded);
\* after every poll that returns pending the call sleeps for the larger of its
\* previous sleep and the request's interval at that moment.
C30_SleepNeverShrinks ==
  [][\A p \in ProcIds :
       Steps(p) =>
         /\ (~Waiting(procs[p]) /\ Waiting(procs'[p]) /\ procs'[p].pc = "inflight")
              => procs'[p].pollIntervalMs = StartingSleep(store', procs'[p].req)
         /\ (~Waiting(procs[p]) /\ Waiting(procs'[p]) /\ procs'[p].pc = "sleep")
              => /\ procs'[p].pollIntervalMs
                      = Larger(StartingSleep(store, procs'[p].req),
                               store'[procs'[p].req].interval * 1000)
                 /\ procs'[p].wakeAt = now + procs'[p].pollIntervalMs
         /\ (Waiting(procs[p]) /\ Waiting(procs'[p]) /\ procs'[p].pc = "sleep")
              => /\ procs'[p].pollIntervalMs
                      = Larger(procs[p].pollIntervalMs,
                               store'[procs[p].req].interval * 1000)
                 /\ procs'[p].wakeAt = now + procs'[p].pollIntervalMs
         /\ (Waiting(procs[p]) /\ Waiting(procs'[p]))
              => procs'[p].pollIntervalMs >= procs[p].pollIntervalMs]_vars

\* a wait that began at the default 5 s sleeps 10 s after a slow_down answer
C30_Witness ==
  \E p \in ProcIds :
    /\ Waiting(procs[p]) /\ procs[p].pc = "sleep"
    /\ procs[p].pollIntervalMs = (DefaultInterval + SlowDownIncrement) * 1000
    /\ procs[p].wakeAt = now + procs[p].pollIntervalMs
    /\ procs[p].startTime = now
    /\ store[procs[p].req].interval = DefaultInterval + SlowDownIncrement

\* C29: through the approve and deny routes only the user a request belongs to
\* changes its status.  A post by another user is answered 403, one for an
\* unknown id 404, one by the owner for a request that is not pending 400, and
\* each of these leaves the store as it was; the owner's post for a pending
\* request is answered 200 and sets that request's status, and nothing else
\* in any other request.
C29_OnlyOwnerDecides ==
  \A caller \in Users, id \in KnownOrUnknown, verdict \in Verdicts :
    LET r == Route(store, caller, id, verdict)
    IN /\ id \notin Requests => (r.code = 404 /\ r.st = store)
       /\ (id \in Requests /\ store[id].userId # caller)
            => (r.code = 403 /\ r.st = store)
       /\ (id \in Requests /\ store[id].userId = caller /\ store[id].status # "pending")
            => (r.code = 400 /\ r.st = store)
       /\ (id \in Requests /\ store[id].userId = caller /\ store[id].status = "pending")
            => /\ r.code = 200
               /\ r.st[id].status = verdict
               /\ \A other \in Requests \ {id} : r.st[other] = store[other]

\* u2 has denied its own request, and its approve post for u1's pending request
\* has just been answered 403, the request still pending
C29_Witness ==
  /\ reply.route = "approve" /\ reply.code = 403 /\ reply.caller = "u2"
  /\ reply.id \in Requests
  /\ store[reply.id].userId = "u1" /\ store[reply.id].status = "pending"
  /\ store[reply.id].respondedAt = FALSE
  /\ \E id \in Requests :
       /\ store[id].userId = "u2" /\ store[id].status = "denied"
       /\ store[id].respondedAt = TRUE

\* a wait in progress is within its bounds: a poll in flight was started within
\* the budget; a sleep began within the budget, after a poll made no later than
\* the request's deadline, and the clock has not passed its end
WaitWithinBounds(pr) ==
  /\ pr.pc = "inflight" => now - pr.startTime < pr.maxWaitMs
  /\ pr.pc = "sleep"
       => /\ now <= pr.wakeAt
          /\ pr.wakeAt - pr.startTime < pr.maxWaitMs + pr.pollIntervalMs
          /\ pr.req \in Requests
          /\ ~(pr.wakeAt - pr.pollIntervalMs > store[pr.req].expiresAt)

\* C27: every waitForApproval call returns.  When polls take no time it
\* returns at a poll or at the end of a sleep, and every sleep ends earlier
\* than maxWaitMs plus the current polling interval after the call began and
\* follows a poll made no later than the request's expiresAt, so the call
\* returns by the first poll after the deadline.
C27_WaitReturnsInTime ==
  /\ [](\A p \in ProcIds : Waiting(procs[p]) => WaitWithinBounds(procs[p]))
  /\ \A p \in ProcIds : Waiting(procs[p]) ~> procs[p].pc = "done"

\* a wait with a budget of 12 s and a polling interval of 5 s is at the end of
\* its third sleep, 15 s after it began: past the budget, within budget plus
\* interval
C27_Witness ==
  \E p \in ProcIds :
    /\ Waiting(procs[p]) /\ procs[p].pc = "sleep"
    /\ now = procs[p].wakeAt
    /\ procs[p].wakeAt - procs[p].startTime > procs[p].maxWaitMs
    /\ procs[p].wakeAt - procs[p].startTime < procs[p].maxWaitMs + procs[p].pollIntervalMs
====
